---- MODULE Spec2Model ----
(***************************************************************************)
(* Model of the e-mail extraction pipeline (src/src/extractor.py) and of   *)
(* the crawl-and-persist task that runs it (src/src/tasks.py).             *)
(*                                                                         *)
(* Text is modelled as TLA+ strings; a character is a string of length 1.  *)
(***************************************************************************)
EXTENDS Integers, Sequences, FiniteSets, TLC

VARIABLES
    markdown,           \* the text handed to extract_all_emails
    addr,               \* the address embedded in markdown (input bookkeeping)
    pc,                 \* position of extract_all_emails in its six steps
    candidates,         \* _extract_candidates' set
    normalized,         \* _normalize_emails' set
    emails,             \* the list _validate_syntax_batch returned, as submitted
    futures,            \* future_to_email: per submitted record, its worker's state
    collected,          \* the futures the as_completed loop has taken
    validated_results,  \* _validate_dns_batch's list, later scored in place
    final,              \* what extract_all_emails returns
    mx_cache,           \* self.mx_cache
    resolutions,        \* per domain, the MX queries sent so far
    dns,                \* per domain, what the resolver answers
    calls,              \* extract_all_emails calls on this instance so far
    lead_row,           \* the row process_firm was queued with
    tstate,             \* where the process_firm task stands
    retries,            \* self.request.retries
    crawl,              \* what crawler.arun gave the current attempt
    emails_data,        \* what crawl_logic returned to the current attempt
    table,              \* law_leads_final, by apollo_id
    retry_log,          \* the countdown of every retry scheduled so far
    wrote,              \* the attempts (by retries) that committed the row
    raised_in,          \* the attempts (by retries) that raised, with the cause
    pool_queued,        \* a large batch, counted: futures no worker has taken
    pool_running,       \*   futures a worker is running
    pool_done,          \*   futures finished and not yet yielded by as_completed
    pool_collected      \*   futures the loop has taken

textVars == <<markdown, addr, pc, candidates, normalized>>
batchVars == <<emails, futures, collected, validated_results, final>>
dnsVars == <<mx_cache, resolutions, dns, calls>>
taskVars == <<lead_row, tstate, retries, crawl, emails_data, table, retry_log, wrote, raised_in>>
poolVars == <<pool_queued, pool_running, pool_done, pool_collected>>
otherVars == <<taskVars, poolVars>>

(***************************************************************************)
(* Strings                                                                 *)
(***************************************************************************)
Ch(s, i) == SubSeq(s, i, i)

LowerLetters == "abcdefghijklmnopqrstuvwxyz"
UpperLetters == "ABCDEFGHIJKLMNOPQRSTUVWXYZ"
DigitChars == "0123456789"

CharsOf(s) == {Ch(s, i) : i \in 1..Len(s)}

Letters == CharsOf(LowerLetters)
Uppers == CharsOf(UpperLetters)
Digits == CharsOf(DigitChars)
Alnum == Letters \cup Digits

\* str.lower(), one character
LowerOfUpper ==
    [c \in Uppers |->
        Ch(LowerLetters, CHOOSE i \in 1..Len(UpperLetters) : Ch(UpperLetters, i) = c)]

LowerCh(c) == IF c \in Uppers THEN LowerOfUpper[c] ELSE c

RECURSIVE LowerFrom(_, _)
LowerFrom(s, i) == IF i > Len(s) THEN "" ELSE LowerCh(Ch(s, i)) \o LowerFrom(s, i + 1)

Lower(s) == LowerFrom(s, 1)

RECURSIVE LStrip(_, _)
LStrip(s, cs) ==
    IF Len(s) > 0 /\ Ch(s, 1) \in cs THEN LStrip(SubSeq(s, 2, Len(s)), cs) ELSE s

RECURSIVE RStrip(_, _)
RStrip(s, cs) ==
    IF Len(s) > 0 /\ Ch(s, Len(s)) \in cs THEN RStrip(SubSeq(s, 1, Len(s) - 1), cs) ELSE s

Strip(s, cs) == RStrip(LStrip(s, cs), cs)

StartsWith(s, w) == Len(s) >= Len(w) /\ SubSeq(s, 1, Len(w)) = w
EndsWith(s, w) == Len(s) >= Len(w) /\ SubSeq(s, Len(s) - Len(w) + 1, Len(s)) = w
Contains(s, w) == \E i \in 1..(Len(s) - Len(w) + 1) : SubSeq(s, i, i + Len(w) - 1) = w

\* str.find: the first index (1-based here) of w in s; 0 when absent
Find(s, w) ==
    IF Contains(s, w)
    THEN CHOOSE i \in 1..(Len(s) - Len(w) + 1) :
            /\ SubSeq(s, i, i + Len(w) - 1) = w
            /\ \A j \in 1..(i - 1) : SubSeq(s, j, j + Len(w) - 1) # w
    ELSE 0

\* str.split(sep) for a one-character separator
RECURSIVE Split(_, _)
Split(s, sep) ==
    IF ~Contains(s, sep) THEN <<s>>
    ELSE LET i == Find(s, sep)
         IN <<SubSeq(s, 1, i - 1)>> \o Split(SubSeq(s, i + 1, Len(s)), sep)

Space == {" ", "\n", "\t"}

(***************************************************************************)
(* Regular expressions, as Python's re runs them: a pattern is a sequence  *)
(* of items, each item a greedy quantified character class, an ordered     *)
(* alternation of literals or an assertion; matching backtracks in         *)
(* priority order.  Every pattern of the program is compiled with          *)
(* re.IGNORECASE, so classes hold lower-case letters and a character is    *)
(* compared after LowerCh.  hi = -1 stands for an unbounded repetition.    *)
(***************************************************************************)
C(cs, lo, hi) == [k |-> "cls", cs |-> cs, lo |-> lo, hi |-> hi]
Dot(lo, hi) == [k |-> "any", lo |-> lo, hi |-> hi]
Alt(ws) == [k |-> "alt", ws |-> ws]
WB == [k |-> "wb"]
BOL == [k |-> "bol"]
EOL == [k |-> "eol"]
Lit(w) == [i \in 1..Len(w) |-> C({Ch(w, i)}, 1, 1)]

IsWord(c) == LowerCh(c) \in (Alnum \cup {"_"})

\* \b at position pos (the index of the next character to read)
WordBoundary(s, pos) ==
    LET before == pos > 1 /\ pos - 1 <= Len(s) /\ IsWord(Ch(s, pos - 1))
        after == pos >= 1 /\ pos <= Len(s) /\ IsWord(Ch(s, pos))
    IN before # after

ItemTakes(it, c) ==
    IF it.k = "any" THEN c # "\n" ELSE LowerCh(c) \in it.cs

\* how many characters from pos the item can take at most
RECURSIVE MaxRun(_, _, _, _)
MaxRun(it, s, pos, n) ==
    IF pos + n <= Len(s) /\ (it.hi = -1 \/ n < it.hi) /\ ItemTakes(it, Ch(s, pos + n))
    THEN MaxRun(it, s, pos, n + 1)
    ELSE n

\* MatchFrom: <<>> when items k.. do not match at pos; otherwise the position
\* before each item k.. followed by the position after the last one.
RECURSIVE MatchFrom(_, _, _, _)
RECURSIVE TryRep(_, _, _, _, _)
RECURSIVE TryAlt(_, _, _, _, _)
MatchFrom(items, k, s, pos) ==
    IF k > Len(items) THEN <<pos>>
    ELSE LET it == items[k]
             holds == CASE it.k = "wb" -> WordBoundary(s, pos)
                        [] it.k = "bol" -> pos = 1
                        [] it.k = "eol" -> \/ pos = Len(s) + 1
                                           \/ pos = Len(s) /\ Ch(s, pos) = "\n"
                        [] OTHER -> FALSE
         IN  CASE it.k \in {"cls", "any"} ->
                    TryRep(items, k, s, pos, MaxRun(it, s, pos, 0))
               [] it.k = "alt" -> TryAlt(items, k, s, pos, 1)
               [] OTHER ->
                    IF ~holds THEN <<>>
                    ELSE LET rest == MatchFrom(items, k + 1, s, pos)
                         IN IF rest = <<>> THEN <<>> ELSE <<pos>> \o rest

TryRep(items, k, s, pos, n) ==
    IF n < items[k].lo THEN <<>>
    ELSE LET rest == MatchFrom(items, k + 1, s, pos + n)
         IN IF rest # <<>> THEN <<pos>> \o rest
            ELSE TryRep(items, k, s, pos, n - 1)

TryAlt(items, k, s, pos, a) ==
    IF a > Len(items[k].ws) THEN <<>>
    ELSE LET w == items[k].ws[a]
             here == /\ pos + Len(w) - 1 <= Len(s)
                     /\ Lower(SubSeq(s, pos, pos + Len(w) - 1)) = w
             rest == IF here THEN MatchFrom(items, k + 1, s, pos + Len(w)) ELSE <<>>
         IN IF rest # <<>> THEN <<pos>> \o rest
            ELSE TryAlt(items, k, s, pos, a + 1)

\* re.search, as a truth value
RECURSIVE SearchFrom(_, _, _)
SearchFrom(items, s, pos) ==
    IF pos > Len(s) + 1 THEN FALSE
    ELSE IF MatchFrom(items, 1, s, pos) # <<>> THEN TRUE
    ELSE SearchFrom(items, s, pos + 1)

Search(items, s) == SearchFrom(items, s, 1)

\* re.findall for a pattern with at most one capture group (items gs..ge;
\* the whole pattern when it has none): the captured texts, left to right,
\* the scan resuming where the last match ended.  No pattern here matches
\* the empty string.
RECURSIVE FindAllFrom(_, _, _)
FindAllFrom(p, s, pos) ==
    IF pos > Len(s) THEN {}
    ELSE LET m == MatchFrom(p.items, 1, s, pos)
         IN IF m = <<>> THEN FindAllFrom(p, s, pos + 1)
            ELSE {SubSeq(s, m[p.gs], m[p.ge + 1] - 1)}
                     \cup FindAllFrom(p, s, m[Len(m)])

FindAll(p, s) == FindAllFrom(p, s, 1)

\* re.sub(pattern, repl, s)
RECURSIVE SubFrom(_, _, _, _)
SubFrom(items, repl, s, pos) ==
    IF pos > Len(s) THEN ""
    ELSE LET m == MatchFrom(items, 1, s, pos)
         IN IF m = <<>> THEN Ch(s, pos) \o SubFrom(items, repl, s, pos + 1)
            ELSE repl \o SubFrom(items, repl, s, m[Len(m)])

Sub(items, repl, s) == SubFrom(items, repl, s, 1)

(***************************************************************************)
(* ProductionEmailExtractor.__init__: the extraction patterns, the         *)
(* forbidden extensions and the exclusion patterns                         *)
(***************************************************************************)
LocalSet == Alnum \cup {".", "_", "%", "+", "-"}
DomainSet == Alnum \cup {".", "-"}
OpenSet == {"[", "("}
CloseSet == {"]", ")"}

\* [a-zA-Z0-9._%+-]+@[a-zA-Z0-9.-]+\.[a-zA-Z]{2,}
PlainItems ==
    <<C(LocalSet, 1, -1)>> \o Lit("@") \o <<C(DomainSet, 1, -1)>> \o Lit(".")
        \o <<C(Letters, 2, -1)>>

\* \s*[\[\(]?\s*at\s*[\]\)]?\s*   (and the same with dot)
TokenItems(w) ==
    <<C(Space, 0, -1), C(OpenSet, 0, 1), C(Space, 0, -1)>> \o Lit(w)
        \o <<C(Space, 0, -1), C(CloseSet, 0, 1), C(Space, 0, -1)>>

Whole(items) == [items |-> items, gs |-> 1, ge |-> Len(items)]
Group(pre, grp, post) ==
    [items |-> pre \o grp \o post, gs |-> Len(pre) + 1, ge |-> Len(pre) + Len(grp)]

patterns ==
    << \* standard emails
       Whole(<<WB, C(Alnum, 1, 1), C(LocalSet, 0, 63)>> \o Lit("@")
                \o <<C(Alnum, 1, 1), C(DomainSet, 0, 253)>> \o Lit(".")
                \o <<C(Letters, 2, 63), WB>>),
       \* + addressing
       Whole(<<WB, C(LocalSet, 1, -1)>> \o Lit("+") \o <<C(LocalSet, 1, -1)>>
                \o Lit("@") \o <<C(DomainSet, 1, -1)>> \o Lit(".")
                \o <<C(Letters, 2, -1), WB>>),
       \* user [at] domain [dot] com
       Whole(<<WB, C(LocalSet, 1, -1)>> \o TokenItems("at")
                \o <<C(DomainSet, 1, -1)>> \o TokenItems("dot")
                \o <<C(Letters, 2, -1), WB>>),
       \* user AT domain DOT com
       Whole(<<WB, C(LocalSet, 1, -1), C(Space, 1, -1)>> \o Lit("at")
                \o <<C(Space, 1, -1), C(DomainSet, 1, -1), C(Space, 1, -1)>>
                \o Lit("dot") \o <<C(Space, 1, -1), C(Letters, 2, -1), WB>>),
       \* mailto: links
       Group(Lit("mailto:") \o <<C(Space, 0, -1)>>, PlainItems, <<>>),
       \* in parentheses or brackets
       Group(<<C(OpenSet, 1, 1), C(Space, 0, -1)>>, PlainItems,
             <<C(Space, 0, -1), C(CloseSet, 1, 1)>>),
       \* after "email:", "contact:", "e-mail:", "reach:"
       Group(<<Alt(<<"email", "e-mail", "contact", "reach">>)>> \o Lit(":")
                \o <<C(Space, 0, -1)>>, PlainItems, <<>>) >>

forbidden_extensions ==
    {"png", "jpg", "jpeg", "gif", "svg", "webp", "bmp", "ico",
     "pdf", "doc", "docx", "xls", "xlsx", "ppt", "pptx",
     "zip", "rar", "tar", "gz", "7z",
     "mp3", "mp4", "avi", "mov", "wmv",
     "css", "js", "json", "xml",
     "scaled", "circle", "thumbnail", "icon"}

exclusion_patterns ==
    << Lit("@") \o <<Dot(0, -1)>> \o Lit(".")
          \o <<Alt(<<"png", "jpg", "jpeg", "gif", "svg", "webp", "pdf", "css", "js">>), EOL>>,
       <<BOL, C(Digits \cup {"."}, 1, -1)>> \o Lit("@"),
       Lit("@") \o <<C(Digits \cup {"."}, 1, -1), EOL>>,
       Lit("@example.") \o <<Alt(<<"com", "org", "net">>)>>,
       Lit("@test."),
       <<BOL, Alt(<<"test", "demo", "sample", "example">>)>>,
       Lit("@") \o <<Alt(<<"localhost", "127.0.0.1">>)>>,
       Lit("..") \o <<C(Letters, 1, 1)>> >>

(***************************************************************************)
(* _extract_candidates: every pattern's findall, each match stripped of    *)
(* white space and kept when not empty.  No pattern has two capture        *)
(* groups, so findall yields strings and the tuple branch never runs.      *)
(***************************************************************************)
ExtractCandidates(text) ==
    LET found == UNION {FindAll(patterns[i], text) : i \in 1..Len(patterns)}
    IN {Strip(m, Space) : m \in {f \in found : f # ""}}

(***************************************************************************)
(* _normalize_emails                                                       *)
(***************************************************************************)
\* lines 119-129: the cleaned text of one candidate
Clean(email) ==
    LET c1 == Strip(Lower(email), Space)
        c2 == Sub(TokenItems("at"), "@", c1)
        c3 == Sub(TokenItems("dot"), ".", c2)
        c4 == Strip(c3, {"\"", "'", "(", ")", "[", "]", "<", ">", " "})
    IN RStrip(c4, {".", ",", ";", ":"})

\* lines 132-146: the reasons to skip a cleaned text
Excluded(cleaned) ==
    \/ Len(cleaned) < 6
    \/ \E i \in 1..Len(exclusion_patterns) : Search(exclusion_patterns[i], cleaned)
    \/ /\ Contains(cleaned, "@")
       /\ LET domain == Split(cleaned, "@")[2]
              parts == Split(domain, ".")
          IN parts[Len(parts)] \in forbidden_extensions

NormalizeEmails(cands) ==
    {Clean(e) : e \in cands} \ {c \in {Clean(e) : e \in cands} : Excluded(c)}

(***************************************************************************)
(* _validate_syntax_batch.  validate_email belongs to the email-validator  *)
(* library; SyntaxOk states the rules it applies to the texts that reach   *)
(* it here (one @, a dot-atom local part, a dotted host name), and a       *)
(* rejected text raises EmailNotValidError, which the loop swallows.       *)
(***************************************************************************)
AtextSet == Alnum \cup Uppers \cup
    {"!", "#", "$", "%", "&", "'", "*", "+", "-", "/", "=", "?", "^", "_", "{", "|", "}", "~"}

SpecialUseNames == {"arpa", "invalid", "local", "localhost", "onion", "test"}

SyntaxOk(email) ==
    LET parts == Split(email, "@")
    IN /\ Len(parts) = 2
       /\ LET local == parts[1]
              labels == Split(Lower(parts[2]), ".")
          IN /\ Len(local) \in 1..64
             /\ CharsOf(local) \subseteq (AtextSet \cup {"."})
             /\ ~StartsWith(local, ".") /\ ~EndsWith(local, ".") /\ ~Contains(local, "..")
             /\ Len(labels) >= 2
             /\ \A i \in 1..Len(labels) :
                   /\ Len(labels[i]) \in 1..63
                   /\ CharsOf(labels[i]) \subseteq (Alnum \cup {"-"})
                   /\ ~StartsWith(labels[i], "-") /\ ~EndsWith(labels[i], "-")
             /\ ~(CharsOf(labels[Len(labels)]) \subseteq Digits)
             /\ labels[Len(labels)] \notin SpecialUseNames

ValidatedRecord(email) ==
    LET parts == Split(email, "@")
    IN [original |-> email,
        normalized |-> parts[1] \o "@" \o Lower(parts[2]),
        local |-> parts[1],
        domain |-> Lower(parts[2]),
        is_valid |-> TRUE]

\* every order in which a set can be iterated
RECURSIVE Orders(_)
Orders(S) ==
    IF S = {} THEN {<<>>}
    ELSE UNION {{<<x>> \o o : o \in Orders(S \ {x})} : x \in S}

\* the lists _validate_syntax_batch can return: the valid members of the
\* set, in the order the set happens to iterate
ValidateSyntaxBatch(emails_set) ==
    {[i \in 1..Len(o) |-> ValidatedRecord(o[i])] :
        o \in Orders({e \in emails_set : SyntaxOk(e)})}

(***************************************************************************)
(* _check_mx_with_fallback, one DNS query at a time                        *)
(***************************************************************************)
NotFoundPriority == 999

\* lines 204-209
InitialResult ==
    [has_mx |-> FALSE, has_a_record |-> FALSE,
     mx_priority |-> NotFoundPriority, mx_count |-> 0]

RECURSIVE MinOf(_)
MinOf(seq) ==
    IF Len(seq) = 1 THEN seq[1]
    ELSE LET m == MinOf(Tail(seq)) IN IF seq[1] < m THEN seq[1] ELSE m

\* the answers dns.resolver.resolve(domain, 'MX') can give
MXRaisesNoRecords(mx) == mx.kind \in {"NXDOMAIN", "NoAnswer"}

\* AfterMX with the last handler dropping the record instead of keeping it
AfterMX_Discards(result, mx) ==
    CASE mx.kind = "records" ->
            IF Len(mx.prefs) > 0
            THEN [result EXCEPT !.has_mx = TRUE,
                                !.mx_count = Len(mx.prefs),
                                !.mx_priority = MinOf(mx.prefs)]
            ELSE result
      [] OTHER -> result

\* lines 211-219 and 230-232: the result after the MX query
AfterMX(result, mx) ==
    CASE mx.kind = "records" ->
            IF Len(mx.prefs) > 0
            THEN [result EXCEPT !.has_mx = TRUE,
                                !.mx_count = Len(mx.prefs),
                                !.mx_priority = MinOf(mx.prefs)]
            ELSE result
      [] MXRaisesNoRecords(mx) -> result
      [] OTHER -> [result EXCEPT !.has_mx = TRUE]

\* lines 223-228: the result after the A query
AfterA(result, a) ==
    IF a = "records" THEN [result EXCEPT !.has_a_record = TRUE] ELSE result

\* line 188: the records the batch keeps
Keeps(mx_info) == mx_info.has_mx \/ mx_info.has_a_record

(***************************************************************************)
(* _score_emails and _score_to_confidence                                  *)
(***************************************************************************)
WindowChars == 200
BaseScore == 50

relevant_keywords ==
    {"attorney", "lawyer", "partner", "counsel", "esq",
     "contact", "team", "staff", "about", "reach"}

generic_prefixes ==
    {"info", "contact", "admin", "support", "sales",
     "hello", "help", "service", "office"}

professional_tlds == {".com", ".law", ".legal", ".org", ".net", ".us", ".uk"}

Max(a, b) == IF a > b THEN a ELSE b
Min(a, b) == IF a < b THEN a ELSE b

NumDigits(s) == Cardinality({i \in 1..Len(s) : Ch(s, i) \in Digits})

\* lines 273-282
NearKeyword(email, context) ==
    LET context_lower == Lower(context)
        email_lower == Lower(email)
    IN /\ Contains(context_lower, email_lower)
       /\ LET idx == Find(context_lower, email_lower) - 1
              window == SubSeq(context_lower,
                               Max(0, idx - WindowChars) + 1,
                               Min(Len(context_lower), idx + WindowChars))
          IN \E kw \in relevant_keywords : Contains(window, kw)

\* lines 245-307: the score before it is capped
RawScore(e, context) ==
    BaseScore
    + (IF e.has_mx /\ e.mx_priority < 20 THEN 15 ELSE 0)
    + (IF e.mx_count >= 2 THEN 10 ELSE 0)
    + (IF Contains(e.local, ".") /\ ~StartsWith(e.local, ".") /\ ~EndsWith(e.local, ".")
       THEN 20 ELSE 0)
    + (IF Contains(e.local, "_") THEN 5 ELSE 0)
    + (IF \E t \in professional_tlds : EndsWith(e.domain, t) THEN 10 ELSE 0)
    + (IF NearKeyword(e.normalized, context) THEN 15 ELSE 0)
    - (IF \E p \in generic_prefixes : StartsWith(e.local, p) THEN 20 ELSE 0)
    - (IF Contains(e.local, "noreply") \/ Contains(e.local, "no-reply")
          \/ Contains(e.local, "donotreply") THEN 30 ELSE 0)
    - (IF Len(e.local) > 30 THEN 10 ELSE 0)
    - (IF 2 * NumDigits(e.local) > Len(e.local) THEN 15 ELSE 0)
    - (IF ~e.has_mx /\ e.has_a_record THEN 10 ELSE 0)

\* a scorer that leaves the sum of the rules as it is
CapScore_Uncapped(score) == score

\* line 310
CapScore(score) == Max(0, Min(100, score))

\* lines 315-322
ScoreToConfidence(score) ==
    IF score >= 70 THEN "high"
    ELSE IF score >= 40 THEN "medium"
    ELSE "low"

WithFields(rec, fields) == fields @@ rec

ScoreOne(e, context) ==
    LET score == CapScore(RawScore(e, context))
    IN WithFields(e, [score |-> score, confidence |-> ScoreToConfidence(score)])

ScoreEmails(list, context) == [i \in 1..Len(list) |-> ScoreOne(list[i], context)]

(***************************************************************************)
(* _final_filter                                                           *)
(***************************************************************************)
\* lines 333-338
Passes(e) == ~(e.score < 20) /\ ~(~e.has_mx /\ ~e.has_a_record)

RECURSIVE FilterPassing(_)
FilterPassing(list) ==
    IF list = <<>> THEN <<>>
    ELSE (IF Passes(Head(list)) THEN <<Head(list)>> ELSE <<>>) \o FilterPassing(Tail(list))

\* a sort that puts x before the elements of equal score
RECURSIVE InsertByScore_Unstable(_, _)
InsertByScore_Unstable(x, sorted) ==
    IF sorted = <<>> THEN <<x>>
    ELSE IF Head(sorted).score > x.score
         THEN <<Head(sorted)>> \o InsertByScore_Unstable(x, Tail(sorted))
         ELSE <<x>> \o sorted

\* where sorted() puts x in an already sorted list: behind every element
\* that does not score lower (sorted is stable, also with reverse=True)
RECURSIVE InsertByScore(_, _)
InsertByScore(x, sorted) ==
    IF sorted = <<>> THEN <<x>>
    ELSE IF Head(sorted).score >= x.score
         THEN <<Head(sorted)>> \o InsertByScore(x, Tail(sorted))
         ELSE <<x>> \o sorted

RECURSIVE SortedByScore(_)
SortedByScore(list) ==
    IF list = <<>> THEN <<>>
    ELSE InsertByScore(list[Len(list)], SortedByScore(SubSeq(list, 1, Len(list) - 1)))

FinalFilter(list) == SortedByScore(FilterPassing(list))

(***************************************************************************)
(* Inputs                                                                  *)
(***************************************************************************)
MaxCalls == 2

Texts ==
    {"Contact our partner at jane.doe@acme.law or info@acme.law for more.",
     "j.doe@acme.law, k.roe@x.com",
     "mailto:Bob@X.com (kate@acme.law)"}

Domains == {"acme.law", "x.com"}

\* what the resolver can answer for one domain: the MX answer and, asked
\* only after NXDOMAIN or NoAnswer, the A answer
DnsAnswers ==
    {[mx |-> [kind |-> "records", prefs |-> <<10>>], a |-> "fails"],
     [mx |-> [kind |-> "records", prefs |-> <<30, 20>>], a |-> "fails"],
     [mx |-> [kind |-> "NXDOMAIN", prefs |-> <<>>], a |-> "records"],
     [mx |-> [kind |-> "NXDOMAIN", prefs |-> <<>>], a |-> "fails"],
     [mx |-> [kind |-> "NoAnswer", prefs |-> <<>>], a |-> "records"],
     [mx |-> [kind |-> "Timeout", prefs |-> <<>>], a |-> "fails"]}

(***************************************************************************)
(* extract_all_emails, steps 1 to 3                                        *)
(***************************************************************************)
ExtractStep ==
    /\ pc = "start"
    /\ candidates' = ExtractCandidates(markdown)
    /\ pc' = "candidates"
    /\ UNCHANGED <<markdown, addr, normalized, batchVars, dnsVars>>
    /\ UNCHANGED otherVars

NormalizeStep ==
    /\ pc = "candidates"
    /\ normalized' = NormalizeEmails(candidates)
    /\ pc' = "normalized"
    /\ UNCHANGED <<markdown, addr, candidates, batchVars, dnsVars>>
    /\ UNCHANGED otherVars

ValidateSyntaxStep ==
    /\ pc = "normalized"
    /\ emails' \in ValidateSyntaxBatch(normalized)
    /\ pc' = "syntax"
    /\ UNCHANGED <<markdown, addr, candidates, normalized, futures, collected,
                   validated_results, final, dnsVars>>
    /\ UNCHANGED otherVars

(***************************************************************************)
(* _validate_dns_batch: the pool, the workers and the as_completed loop    *)
(***************************************************************************)
max_workers == 20

InFlight == {i \in DOMAIN futures : futures[i].pc \in {"mx", "a", "store"}}

\* lines 179-182: one future per record
SubmitAll ==
    /\ pc = "syntax"
    /\ futures' = [i \in 1..Len(emails) |-> [pc |-> "pending", result |-> InitialResult]]
    /\ collected' = {}
    /\ validated_results' = <<>>
    /\ pc' = "dns"
    /\ UNCHANGED <<markdown, addr, candidates, normalized, emails, final, dnsVars>>
    /\ UNCHANGED otherVars

CacheKey(i) == Lower(emails[i].domain)

\* lines 200-209: a worker takes the task and looks the domain up in the cache
CheckCache(i) ==
    /\ pc = "dns"
    /\ futures[i].pc = "pending"
    /\ Cardinality(InFlight) < max_workers
    /\ IF CacheKey(i) \in DOMAIN mx_cache
       THEN futures' = [futures EXCEPT ![i] = [pc |-> "finished",
                                               result |-> mx_cache[CacheKey(i)]]]
       ELSE futures' = [futures EXCEPT ![i] = [pc |-> "mx", result |-> InitialResult]]
    /\ UNCHANGED <<textVars, emails, collected, validated_results, final, dnsVars>>
    /\ UNCHANGED otherVars

\* lines 211-221, 230-232: the MX query and its outcome
QueryMX(i) ==
    /\ pc = "dns"
    /\ futures[i].pc = "mx"
    /\ LET answer == dns[emails[i].domain].mx
       IN futures' = [futures EXCEPT ![i] =
                        [pc |-> IF MXRaisesNoRecords(answer) THEN "a" ELSE "store",
                         result |-> AfterMX(futures[i].result, answer)]]
    /\ resolutions' = [resolutions EXCEPT ![emails[i].domain] = @ + 1]
    /\ UNCHANGED <<textVars, emails, collected, validated_results, final,
                   mx_cache, dns, calls>>
    /\ UNCHANGED otherVars

\* lines 223-228: the A query
QueryA(i) ==
    /\ pc = "dns"
    /\ futures[i].pc = "a"
    /\ futures' = [futures EXCEPT ![i] =
                     [pc |-> "store",
                      result |-> AfterA(futures[i].result, dns[emails[i].domain].a)]]
    /\ UNCHANGED <<textVars, emails, collected, validated_results, final, dnsVars>>
    /\ UNCHANGED otherVars

\* lines 234-235
StoreCache(i) ==
    /\ pc = "dns"
    /\ futures[i].pc = "store"
    /\ mx_cache' = [d \in (DOMAIN mx_cache) \cup {CacheKey(i)} |->
                       IF d = CacheKey(i) THEN futures[i].result ELSE mx_cache[d]]
    /\ futures' = [futures EXCEPT ![i].pc = "finished"]
    /\ UNCHANGED <<textVars, emails, collected, validated_results, final,
                   resolutions, dns, calls>>
    /\ UNCHANGED otherVars

\* an exception that leaves _check_mx_with_fallback: the two try blocks catch
\* whatever the resolver raises, so only the lines outside them can do it
WorkerRaises(i) ==
    /\ pc = "dns"
    /\ futures[i].pc = "store"
    /\ futures' = [futures EXCEPT ![i].pc = "raised"]
    /\ UNCHANGED <<textVars, emails, collected, validated_results, final, dnsVars>>
    /\ UNCHANGED otherVars

\* the futures as_completed can yield next
Completed == {i \in DOMAIN futures : futures[i].pc \in {"finished", "raised"}}
Yieldable == Completed \ collected

\* Collect without the try/except around future.result(): the exception
\* leaves _validate_dns_batch
Collect_NoHandler(i) ==
    /\ pc = "dns"
    /\ i \in Yieldable
    /\ collected' = collected \cup {i}
    /\ IF futures[i].pc = "finished"
       THEN LET email_data == WithFields(emails[i], futures[i].result)
            IN /\ emails' = [emails EXCEPT ![i] = email_data]
               /\ validated_results' =
                     IF Keeps(futures[i].result)
                     THEN Append(validated_results, email_data)
                     ELSE validated_results
               /\ pc' = pc
       ELSE /\ pc' = "aborted"
            /\ UNCHANGED <<emails, validated_results>>
    /\ UNCHANGED <<markdown, addr, candidates, normalized, futures, final, dnsVars>>
    /\ UNCHANGED otherVars

\* lines 183-191: the loop body for the future as_completed yields
Collect(i) ==
    /\ pc = "dns"
    /\ i \in Yieldable
    /\ collected' = collected \cup {i}
    /\ IF futures[i].pc = "finished"
       THEN LET email_data == WithFields(emails[i], futures[i].result)
            IN /\ emails' = [emails EXCEPT ![i] = email_data]
               /\ validated_results' =
                     IF Keeps(futures[i].result)
                     THEN Append(validated_results, email_data)
                     ELSE validated_results
       ELSE UNCHANGED <<emails, validated_results>>
    /\ UNCHANGED <<textVars, futures, final, dnsVars>>
    /\ UNCHANGED otherVars

\* line 192: every future was taken, the pool is shut down
BatchReturns ==
    /\ pc = "dns"
    /\ collected = DOMAIN futures
    /\ pc' = "dns_done"
    /\ UNCHANGED <<markdown, addr, candidates, normalized, batchVars, dnsVars>>
    /\ UNCHANGED otherVars

(***************************************************************************)
(* extract_all_emails, steps 5 and 6                                       *)
(***************************************************************************)
ScoreStep ==
    /\ pc = "dns_done"
    /\ validated_results' = ScoreEmails(validated_results, markdown)
    /\ pc' = "scored"
    /\ UNCHANGED <<markdown, addr, candidates, normalized, emails, futures,
                   collected, final, dnsVars>>
    /\ UNCHANGED otherVars

FilterStep ==
    /\ pc = "scored"
    /\ final' = FinalFilter(validated_results)
    /\ pc' = "returned"
    /\ UNCHANGED <<markdown, addr, candidates, normalized, emails, futures,
                   collected, validated_results, dnsVars>>
    /\ UNCHANGED otherVars

\* the next call on the same instance: only the cache outlives a call
NextCall ==
    /\ pc = "returned"
    /\ calls < MaxCalls
    /\ markdown' \in Texts
    /\ calls' = calls + 1
    /\ pc' = "start"
    /\ candidates' = {} /\ normalized' = {}
    /\ emails' = <<>> /\ futures' = <<>> /\ collected' = {}
    /\ validated_results' = <<>> /\ final' = <<>>
    /\ UNCHANGED <<addr, mx_cache, resolutions, dns>>
    /\ UNCHANGED otherVars

vars == <<textVars, batchVars, dnsVars, taskVars, poolVars>>

TaskIdle ==
    /\ lead_row = [apollo_id |-> "", website |-> ""]
    /\ tstate = "none"
    /\ retries = 0
    /\ crawl = [kind |-> "notrun"]
    /\ emails_data = <<>>
    /\ table = <<>>
    /\ retry_log = <<>>
    /\ wrote = {}
    /\ raised_in = {}

PoolIdle ==
    /\ pool_queued = 0 /\ pool_running = 0 /\ pool_done = 0 /\ pool_collected = 0

PipelineIdle ==
    /\ candidates = {} /\ normalized = {}
    /\ emails = <<>> /\ futures = <<>> /\ collected = {}
    /\ validated_results = <<>> /\ final = <<>>

Init ==
    /\ markdown \in Texts
    /\ addr = ""
    /\ pc = "start"
    /\ PipelineIdle
    /\ mx_cache = <<>>
    /\ resolutions = [d \in Domains |-> 0]
    /\ dns \in [Domains -> DnsAnswers]
    /\ calls = 1
    /\ TaskIdle
    /\ PoolIdle

Next ==
    \/ ExtractStep
    \/ NormalizeStep
    \/ ValidateSyntaxStep
    \/ SubmitAll
    \/ \E i \in DOMAIN futures : CheckCache(i)
    \/ \E i \in DOMAIN futures : QueryMX(i)
    \/ \E i \in DOMAIN futures : QueryA(i)
    \/ \E i \in DOMAIN futures : StoreCache(i)
    \/ \E i \in DOMAIN futures : WorkerRaises(i)
    \/ \E i \in DOMAIN futures : Collect(i)
    \/ BatchReturns
    \/ ScoreStep
    \/ FilterStep
    \/ NextCall

Spec == Init /\ [][Next]_vars

(***************************************************************************)
(* Properties of the deliverability check                                  *)
(***************************************************************************)
InResults(i) ==
    \E k \in 1..Len(validated_results) : validated_results[k].original = emails[i].original

BatchOver == pc \in {"dns_done", "scored", "returned"}

\* C1: each distinct lower-cased domain is resolved at most once in the life
\* of the extractor, whatever the interleaving of the workers and however
\* many calls are made.
C1_OneResolutionPerDomain == \A d \in Domains : resolutions[d] <= 1

\* C2: the result of a resolution is decided by the MX answer: records found
\* give has_mx with their count and least preference; NXDOMAIN or NoAnswer
\* give has_mx false and has_a_record exactly when the A query finds a
\* record, and with neither the record is dropped; any other MX failure
\* gives has_mx true, mx_count 0 and the priority 999, and the record is kept.
C2_ResultFollowsAnswer ==
    \A i \in DOMAIN futures :
        futures[i].pc = "finished" =>
            LET r == futures[i].result
                ans == dns[emails[i].domain]
            IN /\ ans.mx.kind = "records" =>
                    /\ r.has_mx
                    /\ r.mx_count = Len(ans.mx.prefs)
                    /\ \A j \in 1..Len(ans.mx.prefs) : r.mx_priority <= ans.mx.prefs[j]
                    /\ \E j \in 1..Len(ans.mx.prefs) : r.mx_priority = ans.mx.prefs[j]
               /\ ans.mx.kind \in {"NXDOMAIN", "NoAnswer"} =>
                    /\ ~r.has_mx
                    /\ r.has_a_record <=> (ans.a = "records")
                    /\ (i \in collected /\ ans.a # "records") => ~InResults(i)
               /\ ans.mx.kind \notin {"records", "NXDOMAIN", "NoAnswer"} =>
                    /\ r.has_mx
                    /\ r.mx_count = 0
                    /\ r.mx_priority = 999
                    /\ i \in collected => InResults(i)

C2_Witness ==
    \E i \in collected :
        /\ futures[i].pc = "finished"
        /\ dns[emails[i].domain].mx.kind = "Timeout"
        /\ InResults(i)
        /\ \E j \in collected :
              /\ futures[j].pc = "finished"
              /\ dns[emails[j].domain].mx.kind = "NXDOMAIN"
              /\ ~InResults(j)

\* C3: an exception in one resolution does not abort the batch: the call
\* returns, every other record whose own resolution found an MX or an A
\* record is in the returned list, and only the failed one is left out.
C3_FailureIsolated ==
    (pc # "dns" /\ \E i \in DOMAIN futures : futures[i].pc = "raised") =>
        /\ BatchOver
        /\ \A i \in DOMAIN futures :
              /\ (futures[i].pc = "finished" /\ Keeps(futures[i].result)) => InResults(i)
              /\ futures[i].pc = "raised" => ~InResults(i)

C3_Witness ==
    /\ pc = "dns_done"
    /\ \E i, j \in DOMAIN futures :
          /\ futures[i].pc = "raised"
          /\ futures[j].pc = "finished"
          /\ InResults(j)

\* C4: the list extract_all_emails returns is the same for every completion
\* order of the lookups: it is the one a run that completes them in
\* submission order returns.
SubmissionOrderResults ==
    LET kept(i) == futures[i].pc = "finished" /\ Keeps(futures[i].result)
        F[n \in 0..Len(emails)] ==
            IF n = 0 THEN <<>>
            ELSE IF kept(n) THEN Append(F[n - 1], emails[n]) ELSE F[n - 1]
    IN F[Len(emails)]

C4_OrderStable ==
    pc = "returned" =>
        final = FinalFilter(ScoreEmails(SubmissionOrderResults, markdown))

(***************************************************************************)
(* The Matcher and the Normalizer alone, on an address inside a text       *)
(***************************************************************************)
AddrLocals == {"bob", "Kate", "pat", "dot", "j.doe", "a+b", "matt_s", "ann"}
AddrDomains == {"acme.law", "x.com", "Data.org", "b.cc"}
Before == {"", "Contact ", "mailto:", "(", "email: ", "<"}
After == {"", " now", ")", ".", ">", ","}

DefaultDns == [d \in Domains |-> [mx |-> [kind |-> "Timeout", prefs |-> <<>>], a |-> "fails"]]

DnsIdle ==
    /\ mx_cache = <<>>
    /\ resolutions = [d \in Domains |-> 0]
    /\ dns = DefaultDns
    /\ calls = 1

InitText ==
    /\ addr \in {l \o "@" \o d : l \in AddrLocals, d \in AddrDomains}
    /\ markdown \in {b \o addr \o a : b \in Before, a \in After}
    /\ pc = "start"
    /\ PipelineIdle
    /\ DnsIdle
    /\ TaskIdle
    /\ PoolIdle

NextText == ExtractStep \/ NormalizeStep

SpecText == InitText /\ [][NextText]_vars

\* C7: a well-formed address inside a text, when no exclusion rule covers
\* it, is in the normalized set in lower case, and the replacement of the
\* obfuscation tokens leaves a plain address as it is.
C7_AddressFound ==
    pc = "normalized" =>
        /\ Clean(addr) = Lower(addr)
        /\ ~Excluded(Lower(addr)) => Lower(addr) \in normalized

(***************************************************************************)
(* The Scorer and the Result Filter alone                                  *)
(***************************************************************************)
MaxScored == 2
MaxFiltered == 3

LongLocal == "infonoreply00000000000000000000"

ScoreLocals == {"jane_m.doe", "info", "bob", LongLocal}
ScoreDomains == {"acme.law", "x.io"}
ScoreInfos ==
    {[has_mx |-> TRUE, has_a_record |-> FALSE, mx_priority |-> 10, mx_count |-> 2],
     [has_mx |-> TRUE, has_a_record |-> FALSE, mx_priority |-> NotFoundPriority, mx_count |-> 0],
     [has_mx |-> FALSE, has_a_record |-> TRUE, mx_priority |-> NotFoundPriority, mx_count |-> 0]}
ScoreContexts == {"", "Our team: jane_m.doe@acme.law, bob@x.io"}

ScoreSamples ==
    {WithFields(ValidatedRecord(l \o "@" \o d), info) :
        l \in ScoreLocals, d \in ScoreDomains, info \in ScoreInfos}

ListsOf(S, n) == UNION {[1..k -> S] : k \in 0..n}

InitScore ==
    /\ markdown \in ScoreContexts
    /\ addr = ""
    /\ pc = "dns_done"
    /\ candidates = {} /\ normalized = {}
    /\ emails = <<>> /\ futures = <<>> /\ collected = {}
    /\ validated_results \in ListsOf(ScoreSamples, MaxScored)
    /\ final = <<>>
    /\ DnsIdle
    /\ TaskIdle
    /\ PoolIdle

NextScore == ScoreStep \/ FilterStep

SpecScore == InitScore /\ [][NextScore]_vars

\* C6: every record that leaves _score_emails has a score from 0 to 100 and
\* the confidence that follows from it: high from 70, medium from 40 to 69,
\* low below 40; so 70 is high, 40 is medium and 39 is low.
C6_ScoreCapped ==
    /\ pc \in {"scored", "returned"} =>
          \A k \in 1..Len(validated_results) :
              LET e == validated_results[k]
              IN /\ e.score \in 0..100
                 /\ e.confidence = "high" <=> e.score >= 70
                 /\ e.confidence = "medium" <=> (e.score >= 40 /\ e.score < 70)
                 /\ e.confidence = "low" <=> e.score < 40
    /\ ScoreToConfidence(70) = "high"
    /\ ScoreToConfidence(40) = "medium"
    /\ ScoreToConfidence(39) = "low"

C6_Witness ==
    /\ pc = "scored"
    /\ \E k, l \in 1..Len(validated_results) :
          /\ RawScore(validated_results[k], markdown) > 100
          /\ validated_results[k].score = 100
          /\ RawScore(validated_results[l], markdown) < 0
          /\ validated_results[l].score = 0

\* the lists _final_filter can be given: any scores, any deliverability
FilterNames == <<"a@x.io", "b@x.io", "c@x.io", "d@x.io">>
FilterScores == {0, 19, 20, 55, 100}

InitFilter ==
    /\ markdown = ""
    /\ addr = ""
    /\ pc = "scored"
    /\ candidates = {} /\ normalized = {}
    /\ emails = <<>> /\ futures = <<>> /\ collected = {}
    /\ \E n \in 0..MaxFiltered :
          \E sc \in [1..n -> FilterScores], mx \in [1..n -> BOOLEAN], a \in [1..n -> BOOLEAN] :
              validated_results =
                  [k \in 1..n |->
                      [original |-> FilterNames[k], normalized |-> FilterNames[k],
                       score |-> sc[k], confidence |-> ScoreToConfidence(sc[k]),
                       has_mx |-> mx[k], has_a_record |-> a[k]]]
    /\ final = <<>>
    /\ DnsIdle
    /\ TaskIdle
    /\ PoolIdle

NextFilter == FilterStep

SpecFilter == InitFilter /\ [][NextFilter]_vars

Deliverable(e) == e.has_mx \/ e.has_a_record

\* C5: _final_filter returns exactly the records with a score of at least 20
\* and an MX or an A record, by score from high to low, records of equal
\* score in the order they had in the input.
C5_FilterSorts ==
    pc = "returned" =>
        LET in == validated_results
            keep == {i \in 1..Len(in) : in[i].score >= 20 /\ Deliverable(in[i])}
        IN /\ Len(final) = Cardinality(keep)
           /\ \A i \in keep : \E k \in 1..Len(final) : final[k] = in[i]
           /\ \A k \in 1..Len(final) :
                 /\ final[k].score >= 20 /\ Deliverable(final[k])
                 /\ \E i \in keep : final[k] = in[i]
           /\ \A k \in 1..(Len(final) - 1) : final[k].score >= final[k + 1].score
           /\ \A k, l \in 1..Len(final) :
                 (k < l /\ final[k].score = final[l].score) =>
                     \E i, j \in keep : i < j /\ in[i] = final[k] /\ in[j] = final[l]

C5_Witness ==
    /\ pc = "returned"
    /\ Len(validated_results) = 3
    /\ \E i \in 1..3 : validated_results[i].score < 20 /\ Deliverable(validated_results[i])
    /\ Len(final) = 2
    /\ final[1].score = final[2].score

(***************************************************************************)
(* The crawl-and-persist task: crawl_logic and process_firm, run by a      *)
(* Celery worker with max_retries=3                                        *)
(***************************************************************************)
max_retries == 3
RetryCountdown == 60

pipelineVars == <<textVars, batchVars, dnsVars>>

\* the deliverability result of one whole resolution
MxInfo(answer) ==
    LET afterMX == AfterMX(InitialResult, answer.mx)
    IN IF MXRaisesNoRecords(answer.mx) THEN AfterA(afterMX, answer.a) ELSE afterMX

RECURSIVE KeptOf(_, _)
KeptOf(list, answers) ==
    IF list = <<>> THEN <<>>
    ELSE LET info == MxInfo(answers[Head(list).domain])
         IN (IF Keeps(info) THEN <<WithFields(Head(list), info)>> ELSE <<>>)
                \o KeptOf(Tail(list), answers)

\* extract_all_emails with the lookups completed in submission order
ExtractAllEmails(text, answers) ==
    LET syntax_valid == CHOOSE l \in ValidateSyntaxBatch(NormalizeEmails(ExtractCandidates(text))) : TRUE
    IN FinalFilter(ScoreEmails(KeptOf(syntax_valid, answers), text))

\* tasks.py line 62
RECURSIVE ConfidentLeads(_)
ConfidentLeads(final_leads) ==
    IF final_leads = <<>> THEN <<>>
    ELSE (IF Head(final_leads).confidence \in {"high", "medium"}
          THEN <<Head(final_leads).normalized>> ELSE <<>>)
             \o ConfidentLeads(Tail(final_leads))

\* tasks.py lines 52-55
RECURSIVE CombinedMarkdown(_)
CombinedMarkdown(results) ==
    IF results = <<>> THEN ""
    ELSE (IF Head(results).success /\ Head(results).markdown # ""
          THEN "\n" \o Head(results).markdown ELSE "")
             \o CombinedMarkdown(Tail(results))

\* what crawler.arun can do
CrawlOutcomes ==
    {[kind |-> "raises", results |-> <<>>],
     [kind |-> "none", results |-> <<>>],
     [kind |-> "list", results |-> <<[success |-> FALSE, markdown |-> ""]>>],
     [kind |-> "list", results |-> <<[success |-> TRUE, markdown |-> "j.doe@acme.law, k.roe@x.com"]>>],
     [kind |-> "list", results |-> <<[success |-> TRUE, markdown |-> "mailto:Bob@X.com (kate@acme.law)"],
                                     [success |-> FALSE, markdown |-> ""]>>]}

\* ", ".join(unique_emails) for one iteration order of the set
RECURSIVE Join(_)
Join(list) ==
    IF list = <<>> THEN ""
    ELSE IF Len(list) = 1 THEN list[1]
    ELSE list[1] \o ", " \o Join(Tail(list))

SeqRange(list) == {list[i] : i \in 1..Len(list)}

\* self.retry(exc=e, countdown=60) with the attempt's exception: a retry is
\* scheduled with one more in self.request.retries; once max_retries is
\* reached the exception is raised instead and the task has failed
SelfRetry_OneMore(cause) ==
    /\ raised_in' = raised_in \cup {<<retries, cause>>}
    /\ IF retries <= max_retries
       THEN /\ retry_log' = Append(retry_log, RetryCountdown)
            /\ retries' = retries + 1
            /\ tstate' = "RETRY"
       ELSE /\ tstate' = "FAILURE"
            /\ UNCHANGED <<retry_log, retries>>

SelfRetry(cause) ==
    /\ raised_in' = raised_in \cup {<<retries, cause>>}
    /\ IF retries < max_retries
       THEN /\ retry_log' = Append(retry_log, RetryCountdown)
            /\ retries' = retries + 1
            /\ tstate' = "RETRY"
       ELSE /\ tstate' = "FAILURE"
            /\ UNCHANGED <<retry_log, retries>>

\* lines 69-71: the worker takes the message (the first delivery or a retry)
TaskStarts ==
    /\ tstate \in {"PENDING", "RETRY"}
    /\ tstate' = IF lead_row.website = "" THEN "SKIPPED" ELSE "crawl"
    /\ crawl' = [kind |-> "notrun"]
    /\ emails_data' = <<>>
    /\ UNCHANGED <<lead_row, retries, table, retry_log, wrote, raised_in>>
    /\ UNCHANGED <<pipelineVars, poolVars>>

\* tasks.py lines 45-58: the crawl and what crawl_logic makes of it
CrawlStep ==
    /\ tstate = "crawl"
    /\ \E outcome \in CrawlOutcomes :
          /\ crawl' = outcome
          /\ IF outcome.kind = "raises"
             THEN /\ SelfRetry("crawl")
                  /\ UNCHANGED emails_data
             ELSE /\ IF outcome.kind = "none" \/ CombinedMarkdown(outcome.results) = ""
                     THEN emails_data' = <<>> /\ tstate' = "connect"
                     ELSE UNCHANGED emails_data /\ tstate' = "extract"
                  /\ UNCHANGED <<retries, retry_log, raised_in>>
    /\ UNCHANGED <<lead_row, table, wrote>>
    /\ UNCHANGED <<pipelineVars, poolVars>>

LeadRows ==
    {[apollo_id |-> "ap1", website |-> "https://acme.law"],
     [apollo_id |-> "ap1", website |-> ""]}

TaskDns ==
    {[d \in Domains |-> [mx |-> [kind |-> "records", prefs |-> <<10>>], a |-> "fails"]],
     [d \in Domains |-> [mx |-> [kind |-> "NXDOMAIN", prefs |-> <<>>], a |-> "fails"]],
     [d \in Domains |-> [mx |-> [kind |-> "NoAnswer", prefs |-> <<>>], a |-> "records"]]}

\* tasks.py lines 60-62, worked out once for every crawl and every resolver
LeadsOf ==
    [outcome \in CrawlOutcomes |->
        [answers \in TaskDns |->
            ConfidentLeads(ExtractAllEmails(CombinedMarkdown(outcome.results), answers))]]

\* tasks.py lines 60-62
ExtractLeads ==
    /\ tstate = "extract"
    /\ emails_data' = LeadsOf[crawl][dns]
    /\ tstate' = "connect"
    /\ UNCHANGED <<lead_row, retries, crawl, table, retry_log, wrote, raised_in>>
    /\ UNCHANGED <<pipelineVars, poolVars>>

\* an exception no stage of the pipeline handles (a thread that cannot be
\* started, say) leaves extract_all_emails and crawl_logic
ExtractRaises ==
    /\ tstate = "extract"
    /\ SelfRetry("extract")
    /\ UNCHANGED <<lead_row, crawl, emails_data, table, wrote>>
    /\ UNCHANGED <<pipelineVars, poolVars>>

\* line 80
DbConnects ==
    /\ tstate = "connect"
    /\ tstate' = "write"
    /\ UNCHANGED <<lead_row, retries, crawl, emails_data, table, retry_log, wrote, raised_in>>
    /\ UNCHANGED <<pipelineVars, poolVars>>

\* lines 80-109: connect, execute or the commit fails; nothing is written
DbRaises ==
    /\ tstate \in {"connect", "write"}
    /\ SelfRetry("database")
    /\ UNCHANGED <<lead_row, crawl, emails_data, table, wrote>>
    /\ UNCHANGED <<pipelineVars, poolVars>>

\* lines 76-109: the upsert, committed when the with block is left
DbWrites ==
    /\ tstate = "write"
    /\ \E order \in Orders(SeqRange(emails_data)) :
          table' = [id \in (DOMAIN table) \cup {lead_row.apollo_id} |->
                      IF id = lead_row.apollo_id
                      THEN [website |-> IF id \in DOMAIN table THEN table[id].website
                                        ELSE lead_row.website,
                            processing_status |-> "completed",
                            emails |-> Join(order)]
                      ELSE table[id]]
    /\ wrote' = wrote \cup {retries}
    /\ tstate' = "written"
    /\ UNCHANGED <<lead_row, retries, crawl, emails_data, retry_log, raised_in>>
    /\ UNCHANGED <<pipelineVars, poolVars>>

\* lines 110-111
TaskReturns ==
    /\ tstate = "written"
    /\ tstate' = "SUCCESS"
    /\ UNCHANGED <<lead_row, retries, crawl, emails_data, table, retry_log, wrote, raised_in>>
    /\ UNCHANGED <<pipelineVars, poolVars>>

InitTask ==
    /\ markdown = "" /\ addr = "" /\ pc = "idle"
    /\ PipelineIdle
    /\ mx_cache = <<>>
    /\ resolutions = [d \in Domains |-> 0]
    /\ dns \in TaskDns
    /\ calls = 0
    /\ lead_row \in LeadRows
    /\ tstate = "PENDING"
    /\ retries = 0
    /\ crawl = [kind |-> "notrun"]
    /\ emails_data = <<>>
    /\ table \in {<<>>, [id \in {"ap1"} |-> [website |-> "https://acme.law",
                                            processing_status |-> "pending",
                                            emails |-> ""]]}
    /\ retry_log = <<>>
    /\ wrote = {}
    /\ raised_in = {}
    /\ PoolIdle

NextTask ==
    \/ TaskStarts
    \/ CrawlStep
    \/ ExtractLeads
    \/ ExtractRaises
    \/ DbConnects
    \/ DbRaises
    \/ DbWrites
    \/ TaskReturns

\* the worker runs every message it is given, and every step of an attempt
\* ends (the crawl and the lookups have timeouts)
SpecTask == InitTask /\ [][NextTask]_vars /\ WF_vars(NextTask)

CrawlFailed ==
    \/ crawl.kind = "none"
    \/ /\ crawl.kind = "list"
       /\ \A k \in 1..Len(crawl.results) : ~crawl.results[k].success

RowCompleted ==
    /\ lead_row.apollo_id \in DOMAIN table
    /\ table[lead_row.apollo_id].processing_status = "completed"

\* C8: when the crawl itself fails (no result list, or no page fetched), the
\* attempt raises, so that it is retried, and never ends with the row
\* written as completed with no e-mail; what raises is the crawl, the
\* database or an unexpected error, never the rejection of a candidate.
C8_CrawlFailurePropagates ==
    /\ ~(/\ CrawlFailed
         /\ tstate \in {"written", "SUCCESS"}
         /\ RowCompleted
         /\ table[lead_row.apollo_id].emails = "")
    /\ \A r \in raised_in : r[2] \in {"crawl", "extract", "database"}

\* C9: every exception in an attempt schedules a retry with a countdown of
\* 60 seconds until 3 retries were scheduled, after which the task has
\* failed; the row is written as completed only by an attempt that raised
\* nothing; and a task with a website ends, successful or failed.
C9_RetryBounded ==
    /\ [](/\ Len(retry_log) <= 3
          /\ \A k \in 1..Len(retry_log) : retry_log[k] = 60
          /\ Len(retry_log) = Cardinality({r \in raised_in : r[1] < 3})
          /\ retries = Len(retry_log)
          /\ (tstate = "FAILURE") <=> (\E r \in raised_in : r[1] = 3)
          /\ \A r \in raised_in : r[1] \notin wrote
          /\ (tstate = "SUCCESS") => (RowCompleted /\ retries \in wrote)
          /\ wrote = {} => (table = <<>> \/ ~RowCompleted))
    /\ (lead_row.website # "") => <>(tstate \in {"SUCCESS", "FAILURE"})

C9_Witness ==
    /\ tstate = "FAILURE"
    /\ Len(retry_log) = 3
    /\ Cardinality(raised_in) = 4

(***************************************************************************)
(* _validate_dns_batch on a batch larger than the pool, counted instead    *)
(* of told apart: ThreadPoolExecutor(max_workers=20) runs at most 20       *)
(* submitted calls at a time, and as_completed yields a future as soon as  *)
(* it is finished                                                          *)
(***************************************************************************)
MaxBatch == 22

\* a loop that waits for every future before it takes the first result
CanCollect_AfterAll == pool_done > 0 /\ pool_running = 0 /\ pool_queued = 0

\* line 183: as_completed has a future to yield
CanCollect == pool_done > 0

\* a worker thread takes the next submitted call
PoolStart ==
    /\ pool_queued > 0
    /\ pool_running < max_workers
    /\ pool_queued' = pool_queued - 1
    /\ pool_running' = pool_running + 1
    /\ UNCHANGED <<pool_done, pool_collected>>
    /\ UNCHANGED <<pipelineVars, taskVars>>

\* a lookup ends, with a result or an exception, at its own time
PoolFinish ==
    /\ pool_running > 0
    /\ pool_running' = pool_running - 1
    /\ pool_done' = pool_done + 1
    /\ UNCHANGED <<pool_queued, pool_collected>>
    /\ UNCHANGED <<pipelineVars, taskVars>>

\* lines 183-191: the loop takes a finished future
PoolCollect ==
    /\ CanCollect
    /\ pool_done' = pool_done - 1
    /\ pool_collected' = pool_collected + 1
    /\ UNCHANGED <<pool_queued, pool_running>>
    /\ UNCHANGED <<pipelineVars, taskVars>>

InitPool ==
    /\ markdown = "" /\ addr = "" /\ pc = "dns"
    /\ PipelineIdle
    /\ DnsIdle
    /\ TaskIdle
    /\ pool_queued \in 0..MaxBatch
    /\ pool_running = 0 /\ pool_done = 0 /\ pool_collected = 0

NextPool == PoolStart \/ PoolFinish \/ PoolCollect

SpecPool == InitPool /\ [][NextPool]_vars

\* C10: at most 20 resolutions run at a time, however many records were
\* submitted, and a finished lookup can be collected at once, whatever
\* lookups are still running or waiting.
C10_BoundedAndPrompt ==
    /\ pool_running <= 20
    /\ pool_done > 0 => ENABLED PoolCollect

C10_Witness ==
    /\ pool_running = 20
    /\ pool_queued > 0
    /\ pool_done > 0

(***************************************************************************)
(* extract_all_emails on a text that holds a no-reply address whose domain *)
(* has MX records                                                          *)
(***************************************************************************)
NoReplyAddress == "noreply@acme.law"

NoReplyTexts ==
    {"noreply@acme.law",
     "Contact: noreply@acme.law",
     "Sent by noreply@acme.law (automated)",
     "noreply@acme.law, j.doe@acme.law"}

\* the answers of a domain with a valid MX record
ValidMX ==
    {[mx |-> [kind |-> "records", prefs |-> <<10>>], a |-> "fails"],
     [mx |-> [kind |-> "records", prefs |-> <<50>>], a |-> "fails"],
     [mx |-> [kind |-> "records", prefs |-> <<30, 20>>], a |-> "fails"],
     [mx |-> [kind |-> "records", prefs |-> <<10, 20>>], a |-> "records"]}

InitNoReply ==
    /\ markdown \in NoReplyTexts
    /\ addr = NoReplyAddress
    /\ pc = "start"
    /\ PipelineIdle
    /\ mx_cache = <<>>
    /\ resolutions = [d \in Domains |-> 0]
    /\ dns \in [Domains -> ValidMX]
    /\ calls = 1
    /\ TaskIdle
    /\ PoolIdle

\* one call; with MX records found there is no A query, and no lookup raises
NextNoReply ==
    \/ ExtractStep
    \/ NormalizeStep
    \/ ValidateSyntaxStep
    \/ SubmitAll
    \/ \E i \in DOMAIN futures : CheckCache(i)
    \/ \E i \in DOMAIN futures : QueryMX(i)
    \/ \E i \in DOMAIN futures : StoreCache(i)
    \/ \E i \in DOMAIN futures : Collect(i)
    \/ BatchReturns
    \/ ScoreStep
    \/ FilterStep

SpecNoReply == InitNoReply /\ [][NextNoReply]_vars

\* C11: noreply@acme.law, its domain answering with a valid MX record, is
\* scored at most 20 and is not in the list extract_all_emails returns.
C11_NoReplyExcluded ==
    /\ pc \in {"scored", "returned"} =>
          \A k \in 1..Len(validated_results) :
              validated_results[k].normalized = NoReplyAddress =>
                  validated_results[k].score <= 20
    /\ pc = "returned" =>
          \A k \in 1..Len(final) : final[k].normalized # NoReplyAddress

====
